---- MODULE Spec2Model ----
(***************************************************************************)
(* A model of the keriox event processor: key events are applied to the   *)
(* identifier state (Event::apply_to, EventMessage::apply_to), their       *)
(* signatures are checked against the active key configuration            *)
(* (KeyConfig::verify, KeyConfig::verify_next) and accepted events are     *)
(* appended to the key event log of the event database; receipts of       *)
(* stored events are verified and kept beside the log.                     *)
(*                                                                         *)
(* Bytes, digests and signatures are symbolic:                             *)
(*  - the bytes of an event message are the message together with the     *)
(*    form they were written in ("canon" is what EventMessage::serialize   *)
(*    emits, "alt" is any other encoding of the same fields, for instance  *)
(*    with white space between them, which the decoder accepts as well);   *)
(*  - a digest is the set of preimages whose hashes are XOR-ed together:   *)
(*    hash(x) is {x} and XOR is the symmetric difference;                  *)
(*  - a signature names the key that made it and the bytes it signs.       *)
(***************************************************************************)
EXTENDS Integers, Sequences, FiniteSets, TLC

VARIABLES
    kel,          \* the key event logs: entries (prefix, sn, raw bytes, signatures)
    states,       \* the state snapshot kept for every identifier with a log
    ooo_escrow,   \* out-of-order escrow, in order of arrival
    ps_escrow,    \* partially-signed escrow, in order of arrival
    rct_escrow,   \* the escrowed receipts
    receipts,     \* the verified receipts
    probe         \* a call of a function of the library: arguments and result

vars == <<kel, states, ooo_escrow, ps_escrow, rct_escrow, receipts, probe>>

(***************************************************************************)
(* Bounds of the model.                                                    *)
(***************************************************************************)
\* highest sequence number a log is let to reach; the events offered carry
\* sequence numbers up to MaxSn + 1
MaxSn == 1

\* highest threshold handed to KeyConfig::new
MaxThreshold == 3

\* highest number of signatures handed to KeyConfig::verify
MaxSigs == 2

\* highest number of keys handed to nxt_commitment
MaxKeys == 3

(***************************************************************************)
(* Generic helpers.                                                        *)
(***************************************************************************)
Range(s) == {s[i] : i \in DOMAIN s}

\* bytes joined with | in the place of ^
SymDiff_or(a, b) == a \cup b

SymDiff(a, b) == (a \ b) \cup (b \ a)

Ok(v) == [ok |-> TRUE, val |-> v]

Err(e) == [ok |-> FALSE, err |-> e]

(***************************************************************************)
(* Prefixes and derivations.                                               *)
(***************************************************************************)
\* BasicPrefix: a public key
BasicPrefix(k) == [key |-> k]

\* SelfAddressing::derive: the digest of data under hash algorithm d
Derive(d, data) == [derivation |-> d, digest |-> {data}]

\* SelfAddressingPrefix::default(): no derivative bytes at all
DefaultSelfAddressing == [derivation |-> "Blake3_256", digest |-> {[nothing |-> TRUE]}]

\* SelfAddressingPrefix::verify_binding: the digest is the hash of data
verify_binding(sap, data) == sap.digest = Derive(sap.derivation, data).digest

IdBasic(k) == [basic |-> BasicPrefix(k)]

IdSelfAddressing(sap) == [sap |-> sap]

\* IdentifierPrefix::default(), the prefix of the uninitialized state
DefaultPrefix == IdSelfAddressing(DefaultSelfAddressing)

\* BasicPrefix::verify: the signature was made by this key over these bytes
KeyVerify(bp, message, signature) == signature.by = bp.key /\ signature.over = message

(***************************************************************************)
(* Key configuration (event/sections/mod.rs).                              *)
(***************************************************************************)
KeyConfig(threshold, public_keys, threshold_key_digest) ==
    [threshold |-> threshold, public_keys |-> public_keys,
     threshold_key_digest |-> threshold_key_digest]

\* KeyConfig::default()
DefaultKeyConfig == KeyConfig(0, <<>>, DefaultSelfAddressing)

\* KeyConfig::new with threshold: Option<u64> (NoThreshold is None)
NoThreshold == [none |-> TRUE]

KeyConfig_new(public_keys, threshold_key_digest, threshold) ==
    KeyConfig(IF threshold = NoThreshold THEN (Len(public_keys) \div 2) + 1
                                         ELSE threshold.some,
              public_keys, threshold_key_digest)

\* a fold that hashes the digest so far together with the next key
RECURSIVE XorFold_chained(_, _, _, _)
XorFold_chained(acc, keys, n, derivation) ==
    IF n = 0 THEN acc
    ELSE Derive(derivation, [chain |-> XorFold_chained(acc, keys, n - 1, derivation),
                             key |-> keys[n].key]).digest

\* the fold of nxt_commitment over keys[1..n]
RECURSIVE XorFold(_, _, _, _)
XorFold(acc, keys, n, derivation) ==
    IF n = 0 THEN acc
    ELSE SymDiff(XorFold(acc, keys, n - 1, derivation),
                 Derive(derivation, [str |-> keys[n].key]).digest)

nxt_commitment(threshold, keys, derivation) ==
    [derivation |-> derivation,
     digest |-> XorFold(Derive(derivation, [hex |-> threshold]).digest,
                        keys, Len(keys), derivation)]

KeyConfig_commit(kc, derivation) ==
    nxt_commitment(kc.threshold, kc.public_keys, derivation)

\* KeyConfig::verify_next comparing the digests' algorithms only
KeyConfig_verify_next_code(kc, next) ==
    kc.threshold_key_digest.derivation
        = KeyConfig_commit(next, kc.threshold_key_digest.derivation).derivation

KeyConfig_verify_next(kc, next) ==
    kc.threshold_key_digest = KeyConfig_commit(next, kc.threshold_key_digest.derivation)

\* number of signatures of sigs that carry index i (0-based, as in the code)
IndexCount(sigs, i) == Cardinality({j \in DOMAIN sigs : sigs[j].index = i})

\* KeyConfig::verify satisfied by one good signature among those attached
KeyConfig_verify_any(kc, message, sigs) ==
    IF Len(sigs) < kc.threshold THEN Err("NotEnoughSigsError")
    ELSE IF Len(sigs) <= Len(kc.public_keys)
         THEN IF \E j \in DOMAIN sigs : sigs[j].index >= Len(kc.public_keys) THEN Err("Panic")
              ELSE IF \A i \in 0..(Len(kc.public_keys) - 1) : IndexCount(sigs, i) <= 1
                   THEN Ok(\E j \in DOMAIN sigs :
                             KeyVerify(kc.public_keys[sigs[j].index + 1], message,
                                       sigs[j].signature))
                   ELSE Err("SemanticError")
         ELSE Err("SemanticError")

\* KeyConfig::verify counting one signature more than are attached
KeyConfig_verify_short(kc, message, sigs) ==
    IF Len(sigs) + 1 < kc.threshold THEN Err("NotEnoughSigsError")
    ELSE IF Len(sigs) <= Len(kc.public_keys)
         THEN IF \E j \in DOMAIN sigs : sigs[j].index >= Len(kc.public_keys) THEN Err("Panic")
              ELSE IF \A i \in 0..(Len(kc.public_keys) - 1) : IndexCount(sigs, i) <= 1
                   THEN Ok(\A j \in DOMAIN sigs :
                             KeyVerify(kc.public_keys[sigs[j].index + 1], message,
                                       sigs[j].signature))
                   ELSE Err("SemanticError")
         ELSE Err("SemanticError")

\* KeyConfig::verify.  "Panic" is the abort of acc[sig.index as usize] += 1
\* when the index is not a position of public_keys.
KeyConfig_verify(kc, message, sigs) ==
    IF Len(sigs) < kc.threshold THEN Err("NotEnoughSigsError")
    ELSE IF Len(sigs) <= Len(kc.public_keys)
         THEN IF \E j \in DOMAIN sigs : sigs[j].index >= Len(kc.public_keys)
              THEN Err("Panic")
              ELSE IF \A i \in 0..(Len(kc.public_keys) - 1) : IndexCount(sigs, i) <= 1
                   THEN Ok(\A j \in DOMAIN sigs :
                             KeyVerify(kc.public_keys[sigs[j].index + 1], message,
                                       sigs[j].signature))
                   ELSE Err("SemanticError")
         ELSE Err("SemanticError")

(***************************************************************************)
(* Event messages and their bytes (event_message/mod.rs).                  *)
(***************************************************************************)
Event(prefix, sn, event_data) == [prefix |-> prefix, sn |-> sn, event_data |-> event_data]

Ilk(event) == event.event_data.ilk

\* the bytes of an event message written in the given form
Bytes(msg, form) == [msg |-> msg, form |-> form]

\* an empty byte vector (IdentifierState::default().last)
EmptyBytes == [empty |-> TRUE]

\* the decoder of parse::message: the message the bytes encode, whatever their form
Decode(raw) == raw.msg

\* number of prefixes (keys, digests, identifiers) an event's encoding spells out
PrefixCount(event) ==
    LET d == event.event_data
    IN  1 + (IF "key_config" \in DOMAIN d THEN Len(d.key_config.public_keys) + 1 ELSE 0)
          + (IF "previous_event_hash" \in DOMAIN d THEN 1 ELSE 0)
          + (IF "delegator" \in DOMAIN d THEN 1 ELSE 0)

\* number of digits of n written in hexadecimal
RECURSIVE HexDigits(_)
HexDigits(n) == IF n < 16 THEN 1 ELSE 1 + HexDigits(n \div 16)

\* the size field of the version string: hexadecimal, padded to six digits
SizeWidth(size) == IF HexDigits(size) < 6 THEN 6 ELSE HexDigits(size)

\* "KERI" "10" <FMT> <size> "_"
VersionLen(info) == 4 + 2 + 4 + SizeWidth(info.size) + 1

\* a prefix is spelled with 44 characters: between quotes and before a
\* separator in JSON, behind a two-byte text header in CBOR
FieldLen(kind) == IF kind = "JSON" THEN 44 + 3 ELSE 44 + 2

\* byte length of an encoded message: the version string, the prefixes and
\* the sequence number (compact hexadecimal); bytes in another form than the
\* encoder's carry white space besides
EncodedLen(bytes) ==
    VersionLen(bytes.msg.serialization_info)
      + FieldLen(bytes.msg.serialization_info.kind) * PrefixCount(bytes.msg.event)
      + HexDigits(bytes.msg.event.sn)
      + (IF bytes.form = "alt" THEN 1 ELSE 0)

SerializationInfo_new(format, size) == [kind |-> format, size |-> size]

\* EventMessage::serialize: the encoder writes the fields in declaration order
EventMessage_serialize(msg) == Bytes(msg, "canon")

\* a measure of the event alone, without the version string that heads it
EventMessage_get_size_event(event, format) ==
    FieldLen(format) * PrefixCount(event) + HexDigits(event.sn)

EventMessage_get_size(event, format) ==
    EncodedLen(EventMessage_serialize(
        [serialization_info |-> SerializationInfo_new(format, 0), event |-> event]))

EventMessage_new(event, format) ==
    [serialization_info |-> SerializationInfo_new(format, EventMessage_get_size(event, format)),
     event |-> event]

\* EventMessage::get_inception_data: the inception event with the default
\* prefix, sized with a dummy prefix, as dfs_serializer writes it
get_inception_data(icp, code, format) ==
    LET icp_event_data == Event(IdSelfAddressing(Derive(code, [zeros |-> 32])), 0, icp)
    IN  Bytes([serialization_info |->
                   EventMessage_new(icp_event_data, format).serialization_info,
               event |-> Event(DefaultPrefix, 0, icp)],
              "dfs")

SignedEventMessage_new(message, sigs) == [event_message |-> message, signatures |-> sigs]

\* SignedEventMessage::serialize: the bytes of the message, the count code
\* of the number of signatures as u16, the signatures one after another
SignedEventMessage_serialize(signed) ==
    [message |-> EventMessage_serialize(signed.event_message),
     count |-> Len(signed.signatures) % 65536,
     attached |-> signed.signatures]

\* the parsers read a &str: JSON is text, a CBOR map starts with a byte
\* (0xa0 to 0xbf) that no UTF-8 text starts with
from_utf8(stream) ==
    IF stream.message.msg.serialization_info.kind = "JSON" THEN Ok(stream)
    ELSE Err("Utf8Error")

\* parse::json_message and parse::cbor_message: one value of the stream
json_message(s) ==
    IF s.message.msg.serialization_info.kind = "JSON" THEN Ok(Decode(s.message))
    ELSE Err("IsNot")

cbor_message(s) ==
    IF s.message.msg.serialization_info.kind = "CBOR" THEN Ok(Decode(s.message))
    ELSE Err("IsNot")

\* parse::message: JSON first, then CBOR
parse_message(s) == IF json_message(s).ok THEN json_message(s) ELSE cbor_message(s)

\* what follows a count code: attached signatures and other data
IsSignature(token) == "index" \in DOMAIN token

\* many0(signature): the number of signatures the stream starts with
RECURSIVE Many0(_)
Many0(tokens) ==
    IF tokens = <<>> THEN 0
    ELSE IF IsSignature(Head(tokens)) THEN 1 + Many0(Tail(tokens))
    ELSE 0

\* the result of a parser: what it read and the rest of the stream
Read(rest, val) == Ok([rest |-> rest, val |-> val])

\* parse::signatures that returns whatever signatures follow the count code
signatures_uncounted(s) ==
    Read(SubSeq(s.attached, Many0(s.attached) + 1, Len(s.attached)),
         SubSeq(s.attached, 1, Many0(s.attached)))

\* parse::signatures: as many signatures as follow, which the count has to be
signatures(s) ==
    IF s.count # Many0(s.attached) THEN Err("Count")
    ELSE Read(SubSeq(s.attached, Many0(s.attached) + 1, Len(s.attached)),
              SubSeq(s.attached, 1, Many0(s.attached)))

\* parse::signed_message, the remainder with the message read
signed_message(s) ==
    IF ~parse_message(s).ok THEN parse_message(s)
    ELSE IF ~signatures(s).ok THEN signatures(s)
    ELSE Read(signatures(s).val.rest,
              SignedEventMessage_new(parse_message(s).val, signatures(s).val.val))

\* the bytes of a signed message handed to the parser
Parsed(text) == IF text.ok THEN signed_message(text.val) ELSE text

\* a binding check that looks at the first key alone
verify_identifier_binding_first(icp_event) ==
    LET d == icp_event.event.event_data
        p == icp_event.event.prefix
    IN  IF DOMAIN p = {"basic"}
        THEN Ok(Len(d.key_config.public_keys) >= 1
                /\ p.basic = d.key_config.public_keys[1])
        ELSE Ok(verify_binding(p.sap,
                  get_inception_data(d, p.sap.derivation,
                                     icp_event.serialization_info.kind)))

verify_identifier_binding(icp_event) ==
    LET d == icp_event.event.event_data
        p == icp_event.event.prefix
    IN  IF d.ilk = "icp"
        THEN IF DOMAIN p = {"basic"}
             THEN Ok(Len(d.key_config.public_keys) = 1
                     /\ p.basic = d.key_config.public_keys[1])
             ELSE IF DOMAIN p = {"sap"}
                  THEN Ok(verify_binding(p.sap,
                            get_inception_data(d, p.sap.derivation,
                                               icp_event.serialization_info.kind)))
                  ELSE Err("Panic")
        ELSE Err("SemanticError")

(***************************************************************************)
(* Identifier state and the semantics of the event payloads.               *)
(***************************************************************************)
NoDelegator == [none |-> TRUE]

\* IdentifierState::default()
DefaultState ==
    [prefix |-> DefaultPrefix, sn |-> 0, last |-> EmptyBytes,
     current |-> DefaultKeyConfig, witnesses |-> <<>>, tally |-> 0,
     delegated_keys |-> <<>>, delegator |-> NoDelegator]

InceptionEvent_apply_to(icp, state) ==
    Ok([state EXCEPT !.current = icp.key_config,
                     !.witnesses = icp.witness_config.initial_witnesses,
                     !.tally = icp.witness_config.tally,
                     !.delegated_keys = <<>>])

\* witnesses after the cuts, in their order
RECURSIVE Prune(_, _)
Prune(wits, cuts) ==
    IF wits = <<>> THEN <<>>
    ELSE IF Head(wits) \in Range(cuts) THEN Prune(Tail(wits), cuts)
         ELSE <<Head(wits)>> \o Prune(Tail(wits), cuts)

RotationEvent_apply_to(rot, state) ==
    IF ~KeyConfig_verify_next(state.current, rot.key_config) THEN Err("SemanticError")
    ELSE IF ~(Range(rot.witness_config.prune) \subseteq Range(state.witnesses))
         THEN Err("SemanticError")
    ELSE IF Range(rot.witness_config.graft)
              \cap Range(Prune(state.witnesses, rot.witness_config.prune)) # {}
         THEN Err("SemanticError")
    ELSE Ok([state EXCEPT !.current = rot.key_config,
                          !.tally = rot.witness_config.tally,
                          !.witnesses = Prune(state.witnesses, rot.witness_config.prune)
                                          \o rot.witness_config.graft])

InteractionEvent_apply_to(ixn, state) == Ok(state)

DelegatedInceptionEvent_apply_to(dip, state) ==
    LET r == InceptionEvent_apply_to(dip, state)
    IN  Ok([r.val EXCEPT !.delegator = [some |-> dip.delegator]])

DelegatedRotationEvent_apply_to(drt, state) == RotationEvent_apply_to(drt, state)

EventData_apply_to(d, state) ==
    CASE d.ilk = "icp" -> InceptionEvent_apply_to(d, state)
      [] d.ilk = "rot" -> RotationEvent_apply_to(d, state)
      [] d.ilk = "ixn" -> InteractionEvent_apply_to(d, state)
      [] d.ilk = "dip" -> DelegatedInceptionEvent_apply_to(d, state)
      [] d.ilk = "drt" -> DelegatedRotationEvent_apply_to(d, state)

\* IdentifierState { sn, prefix, ..applied? }
WithSnPrefix(applied, event) ==
    IF applied.ok THEN Ok([applied.val EXCEPT !.sn = event.sn, !.prefix = event.prefix])
    ELSE applied

\* Event::apply_to without the comparison of the prefixes
Event_apply_to_any_prefix(event, state) ==
    IF Ilk(event) = "icp" /\ (state.prefix # DefaultPrefix \/ event.sn # 0)
    THEN Err("SemanticError")
    ELSE IF Ilk(event) # "icp" /\ event.sn # state.sn + 1
    THEN Err("SemanticError")
    ELSE WithSnPrefix(EventData_apply_to(event.event_data, state), event)

\* Event::apply_to without the checks of the sequence number
Event_apply_to_any_sn(event, state) ==
    IF Ilk(event) = "icp" /\ state.prefix # DefaultPrefix
    THEN Err("SemanticError")
    ELSE IF Ilk(event) # "icp" /\ event.prefix # state.prefix
    THEN Err("SemanticError")
    ELSE WithSnPrefix(EventData_apply_to(event.event_data, state), event)

\* Event::apply_to
Event_apply_to(event, state) ==
    IF Ilk(event) = "icp" /\ (state.prefix # DefaultPrefix \/ event.sn # 0)
    THEN Err("SemanticError")
    ELSE IF Ilk(event) # "icp" /\ event.prefix # state.prefix
    THEN Err("SemanticError")
    ELSE IF Ilk(event) # "icp" /\ event.sn # state.sn + 1
    THEN Err("SemanticError")
    ELSE WithSnPrefix(EventData_apply_to(event.event_data, state), event)

\* the inception arm of EventMessage::apply_to, binding being the result of
\* verify_identifier_binding
ApplyBound(msg, state, binding) ==
    IF ~binding.ok THEN binding
    ELSE IF binding.val
         THEN Event_apply_to(msg.event, [state EXCEPT !.last = EventMessage_serialize(msg)])
         ELSE Err("SemanticError")

\* the arm filling the new state from the prior state: { last, ..state }
ApplyChained_before(msg, state, applied) ==
    IF ~applied.ok THEN applied
    ELSE IF verify_binding(msg.event.event_data.previous_event_hash, state.last)
         THEN Ok([state EXCEPT !.last = EventMessage_serialize(msg)])
         ELSE Err("SemanticError")

\* the rotation and interaction arm of EventMessage::apply_to, applied being
\* the result of Event::apply_to
ApplyChained(msg, state, applied) ==
    IF ~applied.ok THEN applied
    ELSE IF verify_binding(msg.event.event_data.previous_event_hash, state.last)
         THEN Ok([applied.val EXCEPT !.last = EventMessage_serialize(msg)])
         ELSE Err("SemanticError")

\* EventMessage::apply_to
EventMessage_apply_to(msg, state) ==
    CASE Ilk(msg.event) = "icp" -> ApplyBound(msg, state, verify_identifier_binding(msg))
      [] Ilk(msg.event) \in {"rot", "ixn"} ->
           ApplyChained(msg, state, Event_apply_to(msg.event, state))
      [] OTHER -> Event_apply_to(msg.event, state)

\* SignedEventMessage::apply_to
SignedEventMessage_apply_to(signed, state) ==
    EventMessage_apply_to(signed.event_message, state)

(***************************************************************************)
(* The event database.                                                     *)
(***************************************************************************)
None == [none |-> TRUE]

Some(v) == [some |-> v]

Db == [kel |-> kel, states |-> states, ooo |-> ooo_escrow, ps |-> ps_escrow,
       rct |-> rct_escrow, receipts |-> receipts]

Entry(prefix, sn, raw, sigs) == [prefix |-> prefix, sn |-> sn, raw |-> raw, sigs |-> sigs]

EntriesAt(db, prefix, sn) == {e \in db.kel : e.prefix = prefix /\ e.sn = sn}

last_event_at_sn(db, prefix, sn) ==
    IF EntriesAt(db, prefix, sn) = {} THEN None
    ELSE Some((CHOOSE e \in EntriesAt(db, prefix, sn) : TRUE).raw)

\* append_event that puts the new bytes in the place of the stored ones
append_event_overwrite(db, prefix, sn, raw, sigs) ==
    Ok([db EXCEPT !.kel = (@ \ EntriesAt(db, prefix, sn)) \cup {Entry(prefix, sn, raw, sigs)}])

\* append_event: refused when (prefix, sn) already holds other bytes
append_event(db, prefix, sn, raw, sigs) ==
    IF EntriesAt(db, prefix, sn) = {}
    THEN Ok([db EXCEPT !.kel = @ \cup {Entry(prefix, sn, raw, sigs)}])
    ELSE IF \A e \in EntriesAt(db, prefix, sn) : e.raw = raw THEN Ok(db)
         ELSE Err("DbError")

\* the snapshot is kept per identifier
compute_state(db, prefix) ==
    IF prefix \in DOMAIN db.states THEN Some(db.states[prefix]) ELSE None

put_state(db, prefix, state) ==
    [db EXCEPT !.states = [p \in (DOMAIN @) \cup {prefix} |->
                              IF p = prefix THEN state ELSE @[p]]]

\* a keyed queue: an item already waiting is not queued twice
Enqueue(queue, item) == IF item \in Range(queue) THEN queue ELSE Append(queue, item)

escrow_out_of_order(db, prefix, sn, raw, sigs) ==
    [db EXCEPT !.ooo = Enqueue(@, Entry(prefix, sn, raw, sigs))]

escrow_partial_sig(db, prefix, sn, raw, sigs) ==
    [db EXCEPT !.ps = Enqueue(@, Entry(prefix, sn, raw, sigs))]

IsAt(prefix, sn, e) == e.prefix = prefix /\ e.sn = sn

\* take_escrow_at: the pending entries of (prefix, sn), oldest first
PendingAt(db, prefix, sn) == SelectSeq(db.ooo, LAMBDA e : IsAt(prefix, sn, e))

WithoutPendingAt(db, prefix, sn) ==
    [db EXCEPT !.ooo = SelectSeq(@, LAMBDA e : ~IsAt(prefix, sn, e))]

(***************************************************************************)
(* The processor: the event path.                                          *)
(***************************************************************************)
Outcome(db, outcome, ret) == [db |-> db, outcome |-> outcome, ret |-> ret]

\* the state an event is applied to: the stored one, or the default
StateBefore(db, prefix) ==
    IF compute_state(db, prefix) = None THEN DefaultState
    ELSE compute_state(db, prefix).some

\* step 4 that appends and leaves the stored state as it was
Commit_stale(db, prefix, state, appended) ==
    IF ~appended.ok THEN Outcome(db, appended.err, None)
    ELSE Outcome(appended.val, "Ok", Some(state))

\* step 4: append, then store the new state; appended is the result of
\* append_event
Commit(db, prefix, state, appended) ==
    IF ~appended.ok THEN Outcome(db, appended.err, None)
    ELSE Outcome(put_state(appended.val, prefix, state), "Ok", Some(state))

\* step 3 onwards, handing the state out together with NotEnoughSigsError
Verified_returning(db, item, prefix, sn, state, verified) ==
    IF ~verified.ok
    THEN IF verified.err = "NotEnoughSigsError"
         THEN Outcome(escrow_partial_sig(db, prefix, sn, item.raw, item.sigs),
                      verified.err, Some(state))
         ELSE Outcome(db, verified.err, None)
    ELSE IF ~verified.val THEN Outcome(db, "SemanticError", None)
    ELSE Commit(db, prefix, state, append_event(db, prefix, sn, item.raw, item.sigs))

\* step 3 onwards, turning away bytes that wait in the partially-signed escrow
Verified_held(db, item, prefix, sn, state, verified) ==
    IF ~verified.ok
    THEN IF verified.err = "NotEnoughSigsError"
         THEN Outcome(escrow_partial_sig(db, prefix, sn, item.raw, item.sigs),
                      verified.err, None)
         ELSE Outcome(db, verified.err, None)
    ELSE IF ~verified.val THEN Outcome(db, "SemanticError", None)
    ELSE IF \E i \in DOMAIN db.ps : db.ps[i].raw = item.raw
         THEN Outcome(db, "NotEnoughSigsError", None)
    ELSE Commit(db, prefix, state, append_event(db, prefix, sn, item.raw, item.sigs))

\* step 3 onwards; verified is the result of KeyConfig::verify under the
\* keys of the state after the event
Verified(db, item, prefix, sn, state, verified) ==
    IF ~verified.ok
    THEN IF verified.err = "NotEnoughSigsError"
         THEN Outcome(escrow_partial_sig(db, prefix, sn, item.raw, item.sigs),
                      verified.err, None)
         ELSE Outcome(db, verified.err, None)
    ELSE IF ~verified.val THEN Outcome(db, "SemanticError", None)
    ELSE Commit(db, prefix, state, append_event(db, prefix, sn, item.raw, item.sigs))

\* step 2 onwards; applied is the result of apply_to
Applied(db, item, prefix, sn, applied) ==
    IF ~applied.ok
    THEN IF applied.err = "EventOutOfOrderError"
         THEN Outcome(escrow_out_of_order(db, prefix, sn, item.raw, item.sigs),
                      applied.err, None)
         ELSE Outcome(db, applied.err, None)
    ELSE Verified(db, item, prefix, sn, applied.val,
                  KeyConfig_verify(applied.val.current, item.raw, item.sigs))

\* steps 1 to 4 of the event path for one signed event
Admit(db, item) ==
    Applied(db, item, Decode(item.raw).event.prefix, Decode(item.raw).event.sn,
            SignedEventMessage_apply_to(
                [event_message |-> Decode(item.raw), signatures |-> item.sigs],
                StateBefore(db, Decode(item.raw).event.prefix)))

RECURSIVE Advance(_, _, _), TryPending(_, _, _, _)
\* step 5: after a commit at sn, the entries waiting for sn + 1 are tried
\* oldest first, and whatever they let in is followed in turn
Retried(r, prefix, sn) ==
    IF r.outcome = "Ok" THEN Advance(r.db, prefix, sn) ELSE r.db

TryPending(db, pending, prefix, sn) ==
    IF pending = <<>> THEN db
    ELSE TryPending(Retried(Admit(db, [raw |-> Head(pending).raw,
                                       sigs |-> Head(pending).sigs]), prefix, sn),
                    Tail(pending), prefix, sn)

Advance(db, prefix, sn) ==
    TryPending(WithoutPendingAt(db, prefix, sn + 1), PendingAt(db, prefix, sn + 1),
               prefix, sn + 1)

\* the outcome of the call is that of the event itself
Promoted(r, event) ==
    IF r.outcome = "Ok"
    THEN Outcome(Advance(r.db, event.prefix, event.sn), r.outcome, r.ret)
    ELSE r

process_event(db, item) == Promoted(Admit(db, item), Decode(item.raw).event)

(***************************************************************************)
(* The processor: the receipt path.                                        *)
(***************************************************************************)
escrow_nt_receipt(db, prefix, sn, couplet) ==
    [db EXCEPT !.rct = @ \cup {[prefix |-> prefix, sn |-> sn, couplet |-> couplet]}]

escrow_t_receipt(db, validator, seal, raw, sigs) ==
    [db EXCEPT !.rct = @ \cup {[validator |-> validator, seal |-> seal,
                                raw |-> raw, sigs |-> sigs]}]

\* one step of the fold: the entry stored at sn applied to the state before
Folded(db, prefix, sn, before) ==
    IF before = None \/ EntriesAt(db, prefix, sn) = {} THEN None
    ELSE Some(EventMessage_apply_to(Decode(last_event_at_sn(db, prefix, sn).some),
                                    before.some).val)

RECURSIVE FoldKel(_, _, _)
\* the state of prefix after the stored events 0 .. sn, applied in order
FoldKel(db, prefix, sn) ==
    Folded(db, prefix, sn,
           IF sn = 0 THEN Some(DefaultState) ELSE FoldKel(db, prefix, sn - 1))

\* the entries of the validator's log the seal's digest is bound to
SealedEntries(db, seal) ==
    {e \in db.kel : e.prefix = seal.pre /\ verify_binding(seal.dig, e.raw)}

\* the validator's state taken before any of its events
ValidatorState_default(db, seal) == Some(DefaultState)

\* the validator's state at the event its seal names
ValidatorState(db, seal) ==
    FoldKel(db, seal.pre, (CHOOSE e \in SealedEntries(db, seal) : TRUE).sn)

\* the receipt written into the log of the receipted prefix
ReceiptVerified_logged(db, body, item, verified) ==
    IF ~verified.ok THEN Outcome(db, verified.err, None)
    ELSE IF ~verified.val THEN Outcome(db, "SemanticError", None)
    ELSE Outcome([db EXCEPT !.kel = @ \cup {Entry(body.prefix, body.sn + 1, item.raw, item.sigs)}],
                 "Ok", compute_state(db, body.prefix))

\* the receipt is kept when the validator's keys verify it
ReceiptVerified(db, body, item, verified) ==
    IF ~verified.ok THEN Outcome(db, verified.err, None)
    ELSE IF ~verified.val THEN Outcome(db, "SemanticError", None)
    ELSE Outcome([db EXCEPT !.receipts = @ \cup
                     {[prefix |-> body.prefix, sn |-> body.sn,
                       seal |-> body.event_data.seal, sigs |-> item.sigs]}],
                 "Ok", compute_state(db, body.prefix))

\* a transferable receipt (vrc): escrowed while the validator's sealed event
\* or the receipted event is missing
ValidatorReceipt(db, body, item) ==
    IF SealedEntries(db, body.event_data.seal) = {}
       \/ last_event_at_sn(db, body.prefix, body.sn) = None
    THEN Outcome(escrow_t_receipt(db, body.event_data.seal.pre, body.event_data.seal,
                                  item.raw, item.sigs),
                 "EventOutOfOrderError", None)
    ELSE ReceiptVerified(db, body, item,
            KeyConfig_verify(ValidatorState(db, body.event_data.seal).some.current,
                             last_event_at_sn(db, body.prefix, body.sn).some,
                             item.sigs))

process_validator_receipt(db, item) == ValidatorReceipt(db, Decode(item.raw).event, item)

RECURSIVE EscrowCouplets(_, _, _, _)
EscrowCouplets(db, prefix, sn, couplets) ==
    IF couplets = <<>> THEN db
    ELSE EscrowCouplets(escrow_nt_receipt(db, prefix, sn, Head(couplets)),
                        prefix, sn, Tail(couplets))

\* a non-transferable receipt (rct): escrowed while the receipted event is
\* missing, else the couplets that verify over its bytes are kept
WitnessReceipt(db, body, couplets) ==
    IF last_event_at_sn(db, body.prefix, body.sn) = None
    THEN Outcome(EscrowCouplets(db, body.prefix, body.sn, couplets),
                 "EventOutOfOrderError", None)
    ELSE Outcome([db EXCEPT !.receipts = @ \cup
                     {[prefix |-> body.prefix, sn |-> body.sn, couplet |-> c] :
                        c \in {x \in Range(couplets) :
                                 KeyVerify(x.key,
                                           last_event_at_sn(db, body.prefix, body.sn).some,
                                           x.sig)}}],
                 "Ok", None)

process_witness_receipt(db, rct) == WitnessReceipt(db, rct.body.event, rct.couplets)

(***************************************************************************)
(* The inputs offered to the processor.                                    *)
(***************************************************************************)
Blake3 == "Blake3_256"

NoWitnesses == [tally |-> 0, initial_witnesses |-> <<>>]

NoWitnessChange == [tally |-> 0, prune |-> <<>>, graft |-> <<>>]

Keylist(ks) == [i \in DOMAIN ks |-> BasicPrefix(ks[i])]

\* every establishment event of the menu commits to the next configuration
\* (threshold 1, keys [K1])
NextCommit == nxt_commitment(1, Keylist(<<"K1">>), Blake3)

IcpData(threshold, ks) ==
    [ilk |-> "icp", key_config |-> KeyConfig(threshold, Keylist(ks), NextCommit),
     witness_config |-> NoWitnesses, inception_configuration |-> <<>>]

RotData(ilk, dig, threshold, ks) ==
    [ilk |-> ilk, previous_event_hash |-> dig,
     key_config |-> KeyConfig(threshold, Keylist(ks), NextCommit),
     witness_config |-> NoWitnessChange, data |-> <<>>]

IxnData(dig) == [ilk |-> "ixn", previous_event_hash |-> dig, data |-> <<>>]

\* the single-signature inception payload and the two-of-two one
IcpSingle == IcpData(1, <<"K1">>)

IcpMulti == IcpData(2, <<"K1", "K2">>)

\* a single-key inception payload that asks for no signature
IcpZero == IcpData(0, <<"K1">>)

\* the two identifiers: a Basic one bound to K1 and a SelfAddressing one
\* bound to the two-of-two inception payload
Id1 == IdBasic("K1")

Id2 == IdSelfAddressing(Derive(Blake3, get_inception_data(IcpMulti, Blake3, "JSON")))

Ids == {Id1, Id2}

\* the configurations a rotation offers: the committed one, one that lists a
\* further key twice, one with a further key, and one with another threshold
RotConfigs ==
    {[threshold |-> 1, keys |-> <<"K1">>],
     [threshold |-> 1, keys |-> <<"K1", "K2", "K2">>],
     [threshold |-> 1, keys |-> <<"K1", "K2">>],
     [threshold |-> 2, keys |-> <<"K1", "K2", "K2">>]}

BadDigest == Derive(Blake3, [junk |-> TRUE])

Known(db, prefix) == prefix \in DOMAIN db.states

\* digest of the bytes the log of prefix holds at its highest sequence number
LatestDigests(db, prefix) ==
    IF Known(db, prefix)
    THEN {Derive(Blake3, e.raw) : e \in EntriesAt(db, prefix, db.states[prefix].sn)}
    ELSE {}

\* digests an event may name as its prior event: of the bytes stored last,
\* of the bytes the state holds as last, and of nothing in the log
DigChoices(db, prefix) ==
    LatestDigests(db, prefix)
      \cup (IF Known(db, prefix) THEN {Derive(Blake3, db.states[prefix].last)} ELSE {})
      \cup {BadDigest}

Message(event) == EventMessage_new(event, "JSON")

IcpEvents ==
    {Event(p, sn, d) : p \in Ids, sn \in {0, 1}, d \in {IcpSingle, IcpMulti, IcpZero}}

IxnEvents(db) ==
    UNION {{Event(p, sn, IxnData(dig)) : sn \in 1..(MaxSn + 1), dig \in DigChoices(db, p)} :
           p \in Ids}

RotEvents(db) ==
    {Event(Id1, sn, RotData("rot", dig, c.threshold, c.keys)) :
        sn \in 1..(MaxSn + 1), dig \in DigChoices(db, Id1), c \in RotConfigs}

DrtEvents(db) ==
    {Event(Id1, sn, RotData("drt", dig, 1, <<"K1">>) @@ [delegator |-> Id2]) :
        sn \in 1..(MaxSn + 1), dig \in LatestDigests(db, Id1) \cup {BadDigest}}

DipEvents ==
    {Event(Id1, sn, [IcpData(1, <<"K1">>) EXCEPT !.ilk = "dip"] @@ [delegator |-> Id2]) :
        sn \in {0, 1}}

\* the bytes on the wire: the inception of Id1 also comes in another form
RawEvents(db) ==
    {Bytes(Message(e), "canon") :
        e \in IcpEvents \cup IxnEvents(db) \cup RotEvents(db) \cup DrtEvents(db) \cup DipEvents}
      \cup {Bytes(Message(Event(Id1, 0, IcpSingle)), "alt")}

Sig(index, key, over) == [index |-> index, signature |-> [by |-> key, over |-> over]]

Junk == [junk |-> TRUE]

\* the signature lists attached to given bytes
SigLists(raw) ==
    {<<Sig(0, "K1", raw)>>,
     <<Sig(0, "K1", raw), Sig(1, "K2", raw)>>,
     <<Sig(0, "K1", raw), Sig(1, "K2", Junk)>>}

\* the bytes and signatures of the events already in the log, sent again
Replays(db) == {[raw |-> e.raw, sigs |-> e.sigs] : e \in db.kel}

EventInputs(db) ==
    UNION {{[raw |-> r, sigs |-> s] : s \in SigLists(r)} : r \in RawEvents(db)}
      \cup Replays(db)

\* the receipts offered: of the inception of Id1, by the validator Id2
\* (sealed to the inception of Id2 or to nothing in its log) and by the
\* witness key K3
ReceiptedBytes == Bytes(Message(Event(Id1, 0, IcpSingle)), "canon")

VrcData(dig, seal) == [ilk |-> "vrc", dig |-> dig, seal |-> seal]

Seals == {[pre |-> Id2, dig |-> d] :
            d \in {Derive(Blake3, Bytes(Message(Event(Id2, 0, IcpMulti)), "canon")), BadDigest}}

VrcInputs ==
    {[raw |-> Bytes(Message(Event(Id1, 0, VrcData(Derive(Blake3, ReceiptedBytes), seal))),
                    "canon"),
      sigs |-> s] : seal \in Seals, s \in SigLists(ReceiptedBytes)}

RctInputs ==
    {[body |-> Message(Event(Id1, 0, [ilk |-> "rct", dig |-> Derive(Blake3, ReceiptedBytes)])),
      couplets |-> <<[key |-> BasicPrefix("K3"), sig |-> [by |-> k, over |-> ReceiptedBytes]]>>] :
        k \in {"K3", "K2"}}

InceptionInputs(db) == {i \in EventInputs(db) : Ilk(Decode(i.raw).event) = "icp"}

\* the arguments handed to KeyConfig::new
KeyLists == {<<>>, Keylist(<<"K1">>), Keylist(<<"K1", "K2">>)}

Thresholds == {NoThreshold} \cup {Some(t) : t \in 0..MaxThreshold}

(***************************************************************************)
(* The state machine.                                                      *)
(***************************************************************************)
Store(db) ==
    /\ kel' = db.kel
    /\ states' = db.states
    /\ ooo_escrow' = db.ooo
    /\ ps_escrow' = db.ps
    /\ rct_escrow' = db.rct
    /\ receipts' = db.receipts
    /\ probe' = probe

\* the logs stay within the bound
InBounds(db) == \A e \in db.kel : e.sn <= MaxSn

NoProbe == [none |-> TRUE]

EmptyDatabase ==
    /\ kel = {}
    /\ states = <<>>
    /\ ooo_escrow = <<>>
    /\ ps_escrow = <<>>
    /\ rct_escrow = {}
    /\ receipts = {}

Init == EmptyDatabase /\ probe = NoProbe

\* EventProcessor::process on a signed event
\* (a call that changes nothing in the database is a stuttering step)
ProcessEvent ==
    \E item \in EventInputs(Db) :
        \E r \in {process_event(Db, item)} :
            /\ r.db # Db
            /\ InBounds(r.db)
            /\ Store(r.db)

Next == ProcessEvent

Spec == Init /\ [][Next]_vars

\* EventProcessor::process on the inception events and on receipts
ProcessInception ==
    \E item \in InceptionInputs(Db) :
        \E r \in {process_event(Db, item)} :
            /\ r.db # Db
            /\ Store(r.db)

ProcessVrc ==
    \E item \in VrcInputs :
        \E r \in {process_validator_receipt(Db, item)} :
            /\ r.db # Db
            /\ Store(r.db)

ProcessRct ==
    \E rct \in RctInputs :
        \E r \in {process_witness_receipt(Db, rct)} :
            /\ r.db # Db
            /\ Store(r.db)

NextReceipts == ProcessInception \/ ProcessVrc \/ ProcessRct

SpecReceipts == Init /\ [][NextReceipts]_vars

(***************************************************************************)
(* The functions of the library called on their own: a call is drawn, then *)
(* made.                                                                   *)
(***************************************************************************)
Pending == [pending |-> TRUE]

Made(result) ==
    /\ probe.result = Pending
    /\ probe' = [probe EXCEPT !.result = result]
    /\ UNCHANGED <<kel, states, ooo_escrow, ps_escrow, rct_escrow, receipts>>

RECURSIVE SeqsUpTo(_, _)
\* the sequences over S of length at most n
SeqsUpTo(S, n) ==
    IF n = 0 THEN {<<>>}
    ELSE SeqsUpTo(S, n - 1) \cup {Append(q, x) : q \in SeqsUpTo(S, n - 1), x \in S}

\* KeyConfig::verify: configurations, and signature lists over the message
\* or over other bytes, with indexes in and out of the key list
VerifyConfigs ==
    {KeyConfig(t, ks, NextCommit) : t \in 0..MaxThreshold, ks \in KeyLists}

VerifySigs ==
    SeqsUpTo({Sig(i, k, over) : i \in 0..MaxSigs, k \in {"K1", "K2"},
                               over \in {ReceiptedBytes, Junk}}, MaxSigs)

VerifyCalls ==
    {[op |-> "verify", kc |-> kc, message |-> ReceiptedBytes, sigs |-> sigs,
      result |-> Pending] : kc \in VerifyConfigs, sigs \in VerifySigs}

CallVerify ==
    /\ probe.op = "verify"
    /\ Made(KeyConfig_verify(probe.kc, probe.message, probe.sigs))

\* nxt_commitment: thresholds, key lists (with and without repeated keys)
\* and hash algorithms
CommitCalls ==
    {[op |-> "commit", threshold |-> t, keys |-> Keylist(ks), derivation |-> d,
      result |-> Pending] :
        t \in 0..MaxThreshold, ks \in SeqsUpTo({"K1", "K2", "K3"}, MaxKeys),
        d \in {Blake3, "SHA3_256"}}

CallCommit ==
    /\ probe.op = "commit"
    /\ Made(nxt_commitment(probe.threshold, probe.keys, probe.derivation))

\* the state after the inception of Id1, and after an interaction on it
Incepted == EventMessage_apply_to(Message(Event(Id1, 0, IcpSingle)), DefaultState).val

Interacted ==
    EventMessage_apply_to(
        Message(Event(Id1, 1, IxnData(Derive(Blake3, Incepted.last)))), Incepted).val

ApplyStates == {DefaultState, Incepted, Interacted}

\* the prefixes of the events applied: Basic ones, the SelfAddressing one
\* and the prefix of the uninitialized state
ApplyPrefixes == {Id1, IdBasic("K2"), Id2, DefaultPrefix}

\* digests an applied event names as its prior event: of no bytes, of the
\* bytes of the inception of Id1, and of bytes no state holds
ApplyDigests == {Derive(Blake3, EmptyBytes), Derive(Blake3, Incepted.last), BadDigest}

\* inception payloads with no key, one key and two keys
ApplyIcpData ==
    {IcpData(1, ks) : ks \in {<<>>, <<"K1">>, <<"K2">>, <<"K1", "K2">>}} \cup {IcpMulti}

ApplyEvents ==
    {Event(p, sn, d) : p \in ApplyPrefixes, sn \in {0, 1}, d \in ApplyIcpData}
      \cup {Event(p, sn, IxnData(dig)) :
               p \in ApplyPrefixes, sn \in 0..2, dig \in ApplyDigests}
      \cup {Event(p, sn, RotData(ilk, dig, 1, <<"K1">>)
                            @@ (IF ilk = "drt" THEN [delegator |-> Id2] ELSE <<>>)) :
               p \in ApplyPrefixes, sn \in 0..2, dig \in ApplyDigests, ilk \in {"rot", "drt"}}
      \cup {Event(p, sn, [IcpSingle EXCEPT !.ilk = "dip"] @@ [delegator |-> Id2]) :
               p \in ApplyPrefixes, sn \in {0, 1}}

\* EventMessage::apply_to: messages in either format and prior states
ApplyCalls ==
    {[op |-> "apply", msg |-> EventMessage_new(e, f), state |-> st, result |-> Pending] :
        e \in ApplyEvents, f \in {"JSON", "CBOR"}, st \in ApplyStates}

CallApply ==
    /\ probe.op = "apply"
    /\ Made(EventMessage_apply_to(probe.msg, probe.state))

\* EventMessage::new: events and formats
NewCalls ==
    {[op |-> "new", event |-> e, format |-> f, result |-> Pending] :
        e \in ApplyEvents, f \in {"JSON", "CBOR"}}

CallNew ==
    /\ probe.op = "new"
    /\ Made(EventMessage_new(probe.event, probe.format))

\* signed messages in either format under none, one or more signatures
SignedMessages ==
    {SignedEventMessage_new(EventMessage_new(e, f), sigs) :
        e \in {Event(Id1, 0, IcpSingle), Event(Id2, 0, IcpMulti),
               Event(Id1, 1, IxnData(BadDigest))},
        f \in {"JSON", "CBOR"},
        sigs \in SeqsUpTo({Sig(i, k, Junk) : i \in 0..MaxSigs, k \in {"K1", "K2"}}, MaxSigs)}

\* serialize, then parse
RoundTripCalls ==
    {[op |-> "roundtrip", signed |-> m, result |-> Pending] : m \in SignedMessages}

CallRoundTrip ==
    /\ probe.op = "roundtrip"
    /\ Made(Parsed(from_utf8(SignedEventMessage_serialize(probe.signed))))

\* what follows the count code in the streams handed to parse::signatures
Tokens == {Sig(0, "K1", Junk), Sig(2, "K2", Junk), [data |-> "extra data"]}

\* parse::signatures: count codes and what follows them
SignaturesCalls ==
    {[op |-> "signatures", count |-> c, attached |-> a, result |-> Pending] :
        c \in 0..(MaxSigs + 1), a \in SeqsUpTo(Tokens, MaxSigs + 1)}

CallSignatures ==
    /\ probe.op = "signatures"
    /\ Made(signatures(probe))

Calls ==
    VerifyCalls \cup CommitCalls \cup ApplyCalls \cup NewCalls \cup RoundTripCalls
      \cup SignaturesCalls

\* the events offered to a state in a sequence of applies: of the two
\* identifiers and of the default prefix, naming the bytes the state holds
\* as last or others
SequenceEvents(state) ==
    {Event(p, sn, d) : p \in Ids \cup {DefaultPrefix}, sn \in {0, 1}, d \in {IcpSingle, IcpMulti}}
      \cup {Event(p, sn, IxnData(dig)) :
               p \in Ids \cup {DefaultPrefix}, sn \in 1..(MaxSn + 1),
               dig \in {Derive(Blake3, state.last), BadDigest}}
      \cup {Event(p, sn, RotData(ilk, Derive(Blake3, state.last), 1, <<"K1">>)
                            @@ (IF ilk = "drt" THEN [delegator |-> Id2] ELSE <<>>)) :
               p \in Ids \cup {DefaultPrefix}, sn \in 1..(MaxSn + 1), ilk \in {"rot", "drt"}}
      \cup {Event(p, sn, [IcpSingle EXCEPT !.ilk = "dip"] @@ [delegator |-> Id2]) :
               p \in Ids \cup {DefaultPrefix}, sn \in {0, 1}}

\* a sequence of applies starts from the empty state; inception is the
\* prefix of the first Icp applied, before the state the last apply met
SequenceStart ==
    [op |-> "sequence", state |-> DefaultState, inception |-> None,
     before |-> DefaultState, ilk |-> "none"]

Applied_next(event, applied) ==
    /\ applied.ok
    /\ probe' = [op |-> "sequence", state |-> applied.val,
                 inception |-> IF probe.inception = None /\ Ilk(event) = "icp"
                               THEN Some(event.prefix) ELSE probe.inception,
                 before |-> probe.state, ilk |-> Ilk(event)]
    /\ UNCHANGED <<kel, states, ooo_escrow, ps_escrow, rct_escrow, receipts>>

\* one more successful EventMessage::apply_to on the state of the sequence
ApplyNext ==
    /\ probe.op = "sequence"
    /\ \E event \in SequenceEvents(probe.state) :
          Applied_next(event, EventMessage_apply_to(Message(event), probe.state))

InitCalls == EmptyDatabase /\ probe \in Calls \cup {SequenceStart}

NextCalls ==
    \/ CallVerify \/ CallCommit \/ CallApply \/ CallNew \/ CallRoundTrip
    \/ CallSignatures \/ ApplyNext

SpecCalls == InitCalls /\ [][NextCalls]_vars

(***************************************************************************)
(* Properties of the log.                                                  *)
(***************************************************************************)
HasEntry(db, prefix, sn) == EntriesAt(db, prefix, sn) # {}

EventOf(item) == Decode(item.raw).event

AsEntry(item) == Entry(EventOf(item).prefix, EventOf(item).sn, item.raw, item.sigs)

Unchanged(r) == r.db = Db

DenseSequence ==
    \A e \in kel : \A n \in 0..e.sn : HasEntry(Db, e.prefix, n)

\* what a step appends lies above everything its log held, and right after
\* an entry of the log (or at 0)
AppendedNext ==
    \A e \in kel' \ kel :
        /\ \A o \in kel : o.prefix = e.prefix => o.sn < e.sn
        /\ e.sn = 0 \/ \E o \in kel' : o.prefix = e.prefix /\ o.sn = e.sn - 1
        /\ e.sn = IF Known(Db, e.prefix) THEN states[e.prefix].sn + 1 ELSE 0

PastKept ==
    \A e \in kel :
        /\ HasEntry([kel |-> kel'], e.prefix, e.sn)
        /\ \A f \in kel' : IsAt(e.prefix, e.sn, f) => f.raw = e.raw

AppendRefusesOtherBytes ==
    \A e \in kel : \A item \in EventInputs(Db) :
        item.raw # e.raw => append_event(Db, e.prefix, e.sn, item.raw, item.sigs) = Err("DbError")

\* C2 (immutable past): bytes stored at (prefix, sn) are stored there,
\* unaltered, after every step, and append_event at an occupied (prefix, sn)
\* with other bytes fails.
C2_ImmutablePast == []AppendRefusesOtherBytes /\ [][PastKept]_vars

C2_Witness ==
    \E e, f \in kel : e.prefix = f.prefix /\ e.sn = 0 /\ f.sn = 1

\* the keys of kc that signed bytes among sigs
ValidSigners(kc, bytes, sigs) ==
    {i \in DOMAIN kc.public_keys :
        \E j \in DOMAIN sigs :
            sigs[j].index = i - 1 /\ KeyVerify(kc.public_keys[i], bytes, sigs[j].signature)}

ActiveConfig(e) == FoldKel(Db, e.prefix, e.sn).some.current

\* C3 (threshold): every entry of the log carries valid signatures of at
\* least threshold keys of the key configuration in force once it is applied.
C3_Threshold ==
    \A e \in kel :
        Cardinality(ValidSigners(ActiveConfig(e), e.raw, e.sigs)) >= ActiveConfig(e).threshold

C3_Witness ==
    \E e \in kel : ActiveConfig(e).threshold = 2 /\ Len(e.sigs) = 2

\* C4 (binding), as the specification states it: every stored rotation,
\* interaction and delegated rotation names the digest of the bytes stored
\* right before it.
C4_Binding ==
    \A e \in kel :
        Ilk(EventOf(e)) \in {"rot", "ixn", "drt"} =>
            \E p \in kel :
                /\ IsAt(e.prefix, e.sn - 1, p)
                /\ verify_binding(EventOf(e).event_data.previous_event_hash, p.raw)

IsRotation(item) == Ilk(EventOf(item)) \in {"rot", "drt"}

NextDigest(item) == StateBefore(Db, EventOf(item).prefix).current.threshold_key_digest

Committed(item) ==
    NextDigest(item) = KeyConfig_commit(EventOf(item).event_data.key_config,
                                        NextDigest(item).derivation)

CommitmentChecked(item, r) ==
    /\ r.outcome = "Ok" => Committed(item)
    /\ ~Committed(item) => r.outcome = "SemanticError" /\ Unchanged(r)

\* C5 (next-key commitment), amended: a rotation is applied only if the
\* digest committed before it equals the commitment of its key configuration,
\* and a rotation whose commitment differs is rejected with SemanticError,
\* nothing changed.
C5_NextKeyCommitment ==
    \A item \in EventInputs(Db) :
        IsRotation(item) => CommitmentChecked(item, process_event(Db, item))

C5_Witness ==
    \E e \in kel :
        /\ Ilk(EventOf(e)) = "rot"
        /\ \E item \in EventInputs(Db) : IsRotation(item) /\ ~Committed(item)

\* the configuration the establishment events offered commit to
OtherThanCommitted(kc) ==
    kc.threshold # 1 \/ Range(kc.public_keys) # Range(Keylist(<<"K1">>))

\* C5 as the specification states it: moreover every rotation whose
\* threshold or key set is not the committed one is rejected.
C5_DifferentKeysRejected ==
    \A item \in EventInputs(Db) :
        IsRotation(item) /\ NextDigest(item) = NextCommit
                         /\ OtherThanCommitted(EventOf(item).event_data.key_config)
            => process_event(Db, item).outcome = "SemanticError"

Duplicate(r) == r.outcome = "EventDuplicateError" /\ Unchanged(r)

\* C6 (idempotent re-processing), as the specification states it: the bytes
\* of a stored event, processed again, give EventDuplicateError and change
\* nothing.
C6_Duplicate ==
    \A item \in Replays(Db) : Duplicate(process_event(Db, item))

Ahead(item) ==
    /\ Ilk(EventOf(item)) # "icp"
    /\ Known(Db, EventOf(item).prefix)
    /\ EventOf(item).sn > states[EventOf(item).prefix].sn + 1

Escrowed(item, r) ==
    /\ r.outcome = "EventOutOfOrderError"
    /\ AsEntry(item) \in Range(r.db.ooo)
    /\ r.db.kel = kel
    /\ last_event_at_sn(r.db, EventOf(item).prefix, EventOf(item).sn) = None

\* C7 (out of order), as the specification states it: an event beyond the
\* state's sn + 1 gives EventOutOfOrderError and is escrowed, the log
\* unchanged.
C7_OutOfOrder ==
    \A item \in EventInputs(Db) : Ahead(item) => Escrowed(item, process_event(Db, item))

\* item applies to the state of its prefix and carries fewer signatures than
\* the threshold then in force
Applies(item) ==
    SignedEventMessage_apply_to([event_message |-> Decode(item.raw), signatures |-> item.sigs],
                                StateBefore(Db, EventOf(item).prefix))

UnderSigned(item) ==
    /\ Applies(item).ok
    /\ Len(item.sigs) < Applies(item).val.current.threshold

PartiallySigned(item, r) ==
    /\ r.outcome = "NotEnoughSigsError"
    /\ AsEntry(item) \in Range(r.db.ps)
    /\ r.db.kel = kel
    /\ r.db.states = states
    /\ last_event_at_sn(r.db, EventOf(item).prefix, EventOf(item).sn) = None

\* C8 (partially signed): a next-in-sequence event that applies and carries
\* fewer signatures than the threshold gives NotEnoughSigsError, enters the
\* partially-signed escrow, and neither the log nor the state moves.
C8_PartiallySigned ==
    \A item \in EventInputs(Db) : UnderSigned(item) => PartiallySigned(item, process_event(Db, item))

C8_Witness ==
    /\ \E i \in DOMAIN ps_escrow : ps_escrow[i].sn = 0
    /\ \E i \in DOMAIN ps_escrow : ps_escrow[i].sn = 1

(***************************************************************************)
(* Properties of the receipts.                                             *)
(***************************************************************************)
KeepsLog(r) == r.db.kel = kel /\ r.db.states = states

\* C9 (receipts keep the state): whatever a receipt meets (escrow,
\* rejection, acceptance), the log and the states are after the call what
\* they were before.
C9_ReceiptsKeepState ==
    /\ \A item \in VrcInputs : KeepsLog(process_validator_receipt(Db, item))
    /\ \A rct \in RctInputs : KeepsLog(process_witness_receipt(Db, rct))

C9_Witness ==
    /\ Known(Db, Id1)
    /\ \E x \in receipts : "seal" \in DOMAIN x
    /\ \E x \in receipts : "couplet" \in DOMAIN x
    /\ \E item \in VrcInputs : process_validator_receipt(Db, item).outcome = "SemanticError"

SealOf(item) == EventOf(item).event_data.seal

AsEscrowed(item) ==
    [validator |-> SealOf(item).pre, seal |-> SealOf(item), raw |-> item.raw, sigs |-> item.sigs]

AsStored(item) ==
    [prefix |-> EventOf(item).prefix, sn |-> EventOf(item).sn,
     seal |-> SealOf(item), sigs |-> item.sigs]

\* the signatures are those of every key of the sealed inception, in order,
\* over the bytes stored for the receipted event
SignedByValidator(item) ==
    \E v \in SealedEntries(Db, SealOf(item)) : \E e \in kel :
        /\ v.sn = 0
        /\ IsAt(EventOf(item).prefix, EventOf(item).sn, e)
        /\ LET keys == Decode(v.raw).event.event_data.key_config.public_keys
           IN  /\ Len(item.sigs) = Len(keys)
               /\ \A i \in DOMAIN keys : item.sigs[i] = Sig(i - 1, keys[i].key, e.raw)

VrcHeld(item, r) ==
    /\ r.outcome # "Ok"
    /\ AsEscrowed(item) \in r.db.rct
    /\ r.db.receipts = receipts

VrcKept(item, r) ==
    /\ r.outcome = "Ok"
    /\ AsStored(item) \in r.db.receipts

VrcOrdered(item, r) ==
    /\ SealedEntries(Db, SealOf(item)) = {} => VrcHeld(item, r)
    /\ SignedByValidator(item) => VrcKept(item, r)

\* C10 (transferable receipt ordering): a vrc that comes while the event its
\* seal names is not in the validator's log gives an error and is escrowed,
\* not stored; the validator's inception once in the log, the same vrc,
\* signed by the validator over the receipted event, is accepted.
C10_VrcOrdering ==
    \A item \in VrcInputs : VrcOrdered(item, process_validator_receipt(Db, item))

C10_Witness ==
    \E x \in rct_escrow : \E y \in receipts :
        /\ "seal" \in DOMAIN x /\ "seal" \in DOMAIN y
        /\ x.seal = y.seal /\ x.sigs = y.sigs
        /\ SealedEntries(Db, x.seal) # {}

(***************************************************************************)
(* Properties of what a call returns.                                      *)
(***************************************************************************)
NewlyEscrowed(item, r) ==
    \/ AsEntry(item) \in Range(r.db.ps) \ Range(ps_escrow)
    \/ AsEntry(item) \in Range(r.db.ooo) \ Range(ooo_escrow)

EventOutput(item, r) ==
    /\ r.ret # None =>
          /\ r.outcome = "Ok"
          /\ AsEntry(item) \in r.db.kel \ kel
          /\ r.ret = compute_state(r.db, EventOf(item).prefix)
    /\ NewlyEscrowed(item, r) => r.ret = None

VrcOutput(item, r) ==
    /\ r.ret # None =>
          /\ r.outcome = "Ok"
          /\ AsStored(item) \in r.db.receipts
          /\ r.ret = compute_state(Db, EventOf(item).prefix)
    /\ AsEscrowed(item) \in r.db.rct \ rct_escrow => r.ret = None

\* C11 (output of process), amended: a call returns a state only for an
\* event it has just put into the log, or for a transferable receipt it has
\* just accepted (then the unchanged state of the receipted prefix); it
\* returns none for every escrowed event, every escrowed receipt and every
\* non-transferable receipt.
C11_Output ==
    /\ \A item \in EventInputs(Db) : EventOutput(item, process_event(Db, item))
    /\ \A item \in VrcInputs : VrcOutput(item, process_validator_receipt(Db, item))
    /\ \A rct \in RctInputs : process_witness_receipt(Db, rct).ret = None

C11_Witness ==
    /\ \E x \in receipts : "seal" \in DOMAIN x
    /\ \E x \in rct_escrow : "seal" \in DOMAIN x
    /\ ps_escrow # <<>>
    /\ \E item \in VrcInputs : process_validator_receipt(Db, item).ret # None

\* C11 as the specification states it: every receipt returns none.
C11_ReceiptsReturnNone ==
    /\ \A item \in VrcInputs : process_validator_receipt(Db, item).ret = None
    /\ \A rct \in RctInputs : process_witness_receipt(Db, rct).ret = None

(***************************************************************************)
(* Properties of the identifier state.                                     *)
(***************************************************************************)
LastIsEvent(item, applied) ==
    applied.ok =>
        /\ applied.val.last = EventMessage_serialize(Decode(item.raw))
        /\ applied.val.sn = Decode(applied.val.last).event.sn

\* C12 (state/last), as the specification states it: after a successful
\* apply of an event message of any variant, last is the serialization of
\* the event just applied and sn is its sequence number.
C12_StateLast ==
    \A item \in EventInputs(Db) : LastIsEvent(item, Applies(item))

WellFormed(kc) == 1 <= kc.threshold /\ kc.threshold <= Len(kc.public_keys)

StatesWellFormed == \A p \in DOMAIN states : WellFormed(states[p].current)

BuiltWellFormed ==
    \A ks \in KeyLists : \A t \in Thresholds : WellFormed(KeyConfig_new(ks, NextCommit, t))

IllFormedKept(item, r) ==
    Applies(item).ok /\ ~WellFormed(Applies(item).val.current) => r.outcome # "Ok"

\* C13 (key configuration), as the specification states it: the current key
\* configuration of every state, and every configuration KeyConfig::new
\* builds, has 1 <= threshold <= number of keys, and an event installing
\* another is not admitted.
C13_KeyConfigInvariant ==
    /\ StatesWellFormed
    /\ \A item \in EventInputs(Db) : IllFormedKept(item, process_event(Db, item))
    /\ BuiltWellFormed

(***************************************************************************)
(* Properties of the functions of the library.                             *)
(***************************************************************************)
Called(op) == probe # NoProbe /\ probe.op = op /\ probe.result # Pending

IndexRepeats(sigs) ==
    \E i, j \in DOMAIN sigs : i # j /\ sigs[i].index = sigs[j].index

AllVerify(kc, message, sigs) ==
    \A j \in DOMAIN sigs :
        /\ sigs[j].index < Len(kc.public_keys)
        /\ KeyVerify(kc.public_keys[sigs[j].index + 1], message, sigs[j].signature)

VerifyResult(kc, message, sigs, result) ==
    IF Len(sigs) < kc.threshold THEN result = Err("NotEnoughSigsError")
    ELSE IF Len(sigs) > Len(kc.public_keys) \/ IndexRepeats(sigs)
         THEN result = Err("SemanticError")
         ELSE result = Ok(TRUE) <=> AllVerify(kc, message, sigs)

\* C14 (verification result), as the specification states it: below the
\* threshold NotEnoughSigsError; more signatures than keys, or an index
\* twice, SemanticError; otherwise accepted exactly when every signature
\* verifies under the key at its index.
C14_VerifyResult ==
    Called("verify") => VerifyResult(probe.kc, probe.message, probe.sigs, probe.result)

Distinct(keys) == \A i, j \in DOMAIN keys : i # j => keys[i] # keys[j]

\* the lists that order the members of keys otherwise
Reorderings(keys) ==
    {q \in SeqsUpTo(Range(keys), Len(keys)) : Len(q) = Len(keys) /\ Range(q) = Range(keys)}

\* C15 (XOR-fold commutativity): the commitment to a threshold and a list of
\* pairwise distinct keys is the commitment to every permutation of the list.
C15_Commutative ==
    Called("commit") /\ Distinct(probe.keys) =>
        \A q \in Reorderings(probe.keys) :
            nxt_commitment(probe.threshold, q, probe.derivation) = probe.result

C15_Witness ==
    /\ Called("commit")
    /\ Distinct(probe.keys)
    /\ Len(probe.keys) = 3
    /\ Cardinality(Reorderings(probe.keys)) = 6

\* a state no inception has been applied to
Uninitialized(state) == state.prefix = DefaultPrefix /\ state.sn = 0

\* C16 (inception only on empty state): an Icp applies only to an
\* uninitialized state (default prefix, sn 0), an Icp applied to an
\* initialized state fails with SemanticError, and a rotation or an
\* interaction applied to an uninitialized state fails.
C16_InceptionFirst ==
    Called("apply") =>
        /\ Ilk(probe.msg.event) = "icp" /\ probe.result.ok => Uninitialized(probe.state)
        /\ Ilk(probe.msg.event) = "icp" /\ ~Uninitialized(probe.state) =>
               probe.result = Err("SemanticError")
        /\ Ilk(probe.msg.event) \in {"rot", "ixn"} /\ Uninitialized(probe.state) =>
               ~probe.result.ok

\* the first two parts of C16 alone
C16_IcpOnlyOnEmpty ==
    Called("apply") /\ Ilk(probe.msg.event) = "icp" =>
        /\ probe.result.ok => Uninitialized(probe.state)
        /\ ~Uninitialized(probe.state) => probe.result = Err("SemanticError")

\* an interaction that names the default prefix and the digest of no bytes,
\* applied to the uninitialized state
C16_StrayInteraction ==
    /\ Called("apply")
    /\ Ilk(probe.msg.event) = "ixn"
    /\ probe.state = DefaultState
    /\ probe.result.ok

\* an inception message under a Basic prefix
BasicInception(msg) == Ilk(msg.event) = "icp" /\ DOMAIN msg.event.prefix = {"basic"}

\* the message lists exactly one key, the one its prefix is
BoundToKey(msg) ==
    /\ Len(msg.event.event_data.key_config.public_keys) = 1
    /\ msg.event.event_data.key_config.public_keys[1] = msg.event.prefix.basic

\* C17 (Basic identifier binding): an inception under a Basic prefix is
\* accepted only if it lists exactly one key and that key is the prefix; with
\* no key, several keys or another key, applying it returns SemanticError
\* and no state.
C17_BasicBinding ==
    Called("apply") /\ BasicInception(probe.msg) =>
        /\ probe.result.ok => BoundToKey(probe.msg)
        /\ ~BoundToKey(probe.msg) => probe.result = Err("SemanticError")

C17_Witness ==
    /\ Called("apply")
    /\ BasicInception(probe.msg)
    /\ probe.msg.event.event_data.key_config.public_keys = <<>>
    /\ probe.state = DefaultState
    /\ probe.msg.event.sn = 0
    /\ probe.result = Err("SemanticError")

\* the entries the log of prefix holds at the sequence number of its state
Latest(prefix) == EntriesAt(Db, prefix, states[prefix].sn)

\* C18 (raw bytes are the digest preimage), as the specification states it:
\* for every committed Icp, Rot or Ixn event the bytes the state holds as
\* last, against which the next previous_event_hash is verified, are the
\* bytes stored in the log, the raw bytes as received.
C18_RawPreimage ==
    \A p \in DOMAIN states : \A e \in Latest(p) :
        Ilk(Decode(e.raw).event) \in {"icp", "rot", "ixn"} => states[p].last = e.raw

\* the log always holds the bytes as they were received
C18_LogKeepsRaw ==
    [][\A e \in kel' \ kel : \E item \in EventInputs(Db) : item.raw = e.raw]_vars

\* an inception received in another form than the encoder's own is logged
\* as received while the state holds its re-encoded bytes
C18_Reencoded ==
    \E p \in DOMAIN states : \E e \in Latest(p) :
        /\ e.raw.form = "alt"
        /\ states[p].last = EventMessage_serialize(Decode(e.raw))
        /\ states[p].last # e.raw

\* the message of the first encoding pass, its size field zero
FirstPass(event, format) ==
    [serialization_info |-> SerializationInfo_new(format, 0), event |-> event]

\* C19 (version-string length): the message built by EventMessage::new
\* carries a size field equal to the byte length of its own serialization,
\* and the first encoding pass (size field zero) is as long as the second.
C19_SizeField ==
    Called("new") =>
        /\ probe.result.event = probe.event
        /\ probe.result.serialization_info.kind = probe.format
        /\ probe.result.serialization_info.size
             = EncodedLen(EventMessage_serialize(probe.result))
        /\ EncodedLen(EventMessage_serialize(FirstPass(probe.event, probe.format)))
             = EncodedLen(EventMessage_serialize(probe.result))

C19_Witness ==
    /\ Called("new")
    /\ probe.format = "CBOR"
    /\ Ilk(probe.event) = "rot"
    /\ probe.result.serialization_info.size > 16
    /\ probe.result # FirstPass(probe.event, probe.format)

\* the parse gave back the message and the signatures, nothing left over,
\* and they serialize to the same bytes
RoundTrips(signed, parsed) ==
    /\ parsed.ok
    /\ parsed.val.rest = <<>>
    /\ parsed.val.val = signed
    /\ SignedEventMessage_serialize(parsed.val.val) = SignedEventMessage_serialize(signed)

\* C20 (round trip), as the specification states it: for every signed event
\* message, parsing the bytes of its serialization yields the same message
\* and signatures with an empty remainder, and serializing the result yields
\* the same bytes.
C20_RoundTrip == Called("roundtrip") => RoundTrips(probe.signed, probe.result)

\* the round trip of the messages in JSON
C20_JsonRoundTrip ==
    Called("roundtrip") /\ probe.signed.event_message.serialization_info.kind = "JSON" =>
        RoundTrips(probe.signed, probe.result)

\* a signed message in CBOR whose bytes no parser of text can be given
C20_CborNotParsed ==
    /\ Called("roundtrip")
    /\ probe.signed.event_message.serialization_info.kind = "CBOR"
    /\ Len(probe.signed.signatures) = 1
    /\ ~probe.result.ok

(***************************************************************************)
(* Properties of the attachment parser.                                    *)
(***************************************************************************)
\* the stream is n signatures and then the end or something else
ExactlyFollow(attached, n) ==
    /\ n <= Len(attached)
    /\ \A i \in 1..n : IsSignature(attached[i])
    /\ n < Len(attached) => ~IsSignature(attached[n + 1])

\* C21 (signature count framing): signatures succeeds on a count code NN
\* and what follows if and only if exactly NN attached signatures follow
\* before any trailing data; it then returns those signatures in order and
\* the trailing data untouched, and on a count mismatch it returns an error.
C21_CountFraming ==
    Called("signatures") =>
        /\ probe.result.ok <=> ExactlyFollow(probe.attached, probe.count)
        /\ probe.result.ok =>
             /\ probe.result.val.val = SubSeq(probe.attached, 1, probe.count)
             /\ probe.result.val.rest
                  = SubSeq(probe.attached, probe.count + 1, Len(probe.attached))
        /\ ~ExactlyFollow(probe.attached, probe.count) => probe.result = Err("Count")

C21_Witness ==
    /\ Called("signatures")
    /\ probe.count = 2
    /\ Len(probe.attached) = 3
    /\ probe.result.ok
    /\ Len(probe.result.val.val) = 2
    /\ probe.result.val.rest = <<[data |-> "extra data"]>>

(***************************************************************************)
(* Properties of the escrows.                                              *)
(***************************************************************************)
\* the log holds these bytes
Holds(db, item) == \E e \in db.kel : e.raw = item.raw

\* item comes right after due in the log of the same identifier
Succeeds(item, due) ==
    /\ EventOf(item).prefix = EventOf(due).prefix
    /\ EventOf(item).sn = EventOf(due).sn + 1

\* the database after early was processed ahead of due, and then due
EarlyThenDue(db, due, early) == process_event(process_event(db, early).db, due).db

\* whatever is admitted right after due is in the log as well when it came
\* before due; after is the outcome of processing due
PromotedAfter(db, due, after) ==
    after.outcome = "Ok" =>
        \A early \in EventInputs(after.db) :
            Succeeds(early, due) /\ Admit(after.db, early).outcome = "Ok" =>
                Holds(EarlyThenDue(db, due, early), early)

\* C23 (escrow promotion on commit), as the specification states it: a
\* fully signed valid event that arrived before its predecessor is in the
\* log once the predecessor has been committed, without being sent again.
C23_Promotion ==
    \A due \in EventInputs(Db) : PromotedAfter(Db, due, process_event(Db, due))

\* an event one ahead of the log, valid after its predecessor, that was
\* processed first and is in no escrow and, the predecessor committed, not in
\* the log
C23_EarlyLost ==
    \E due \in EventInputs(Db) :
        /\ process_event(Db, due).outcome = "Ok"
        /\ \E early \in EventInputs(process_event(Db, due).db) :
             /\ Succeeds(early, due)
             /\ Admit(process_event(Db, due).db, early).outcome = "Ok"
             /\ process_event(Db, early).db = Db
             /\ ~Holds(EarlyThenDue(Db, due, early), early)

\* item carries the bytes of an entry of the partially-signed escrow and
\* signatures that satisfy the key configuration in force once it is applied
Completes(item) ==
    /\ \E i \in DOMAIN ps_escrow : ps_escrow[i].raw = item.raw
    /\ Applies(item).ok
    /\ KeyConfig_verify(Applies(item).val.current, item.raw, item.sigs) = Ok(TRUE)

Admitted(item, r) == r.outcome = "Ok" /\ AsEntry(item) \in r.db.kel

IndexAbsent(kc, sigs) == \E j \in DOMAIN sigs : sigs[j].index >= Len(kc.public_keys)

\* C25 (invalid signing index), as the specification states it: a signature
\* list that meets the threshold, is no longer than the key list and holds
\* an index that is not a position of the key list gets SemanticError.
C25_IndexAbsent ==
    Called("verify")
      /\ probe.kc.threshold <= Len(probe.sigs)
      /\ Len(probe.sigs) <= Len(probe.kc.public_keys)
      /\ IndexAbsent(probe.kc, probe.sigs)
      => probe.result = Err("SemanticError")

\* one signature under a single key, its index beyond the key list: the
\* count of the indexes aborts
C25_Aborts ==
    /\ Called("verify")
    /\ Len(probe.kc.public_keys) = 1
    /\ Len(probe.sigs) = 1
    /\ probe.sigs[1].index = 1
    /\ probe.kc.threshold = 1
    /\ probe.result = Err("Panic")

(***************************************************************************)
(* Further properties of the event semantics.                              *)
(***************************************************************************)
\* the pre-check of an inception: the prior state is empty, the event at 0
InceptionCheck(event, state) == Uninitialized(state) /\ event.sn = 0

\* the pre-check of every other event: same prefix, next sequence number
SuccessorCheck(event, state) == event.prefix = state.prefix /\ event.sn = state.sn + 1

\* C26 (delegated inception creates state like inception), as the
\* specification states it: a Dip is subject to the pre-check of an Icp and,
\* applied at sn 0 to the empty state, yields a state with sn 0 and its own
\* prefix; a Drt is subject to the pre-checks of a Rot.
C26_DelegatedInception ==
    Called("apply") =>
        /\ Ilk(probe.msg.event) = "dip" =>
             /\ probe.result.ok <=> InceptionCheck(probe.msg.event, probe.state)
             /\ probe.result.ok =>
                  /\ probe.result.val.sn = 0
                  /\ probe.result.val.prefix = probe.msg.event.prefix
        /\ Ilk(probe.msg.event) = "drt" /\ probe.result.ok =>
             SuccessorCheck(probe.msg.event, probe.state)

\* the part of C26 about Drt alone
C26_DrtChecked ==
    Called("apply") /\ Ilk(probe.msg.event) = "drt" /\ probe.result.ok =>
        SuccessorCheck(probe.msg.event, probe.state)

\* a Dip at sn 0 under its own prefix is refused on the empty state
C26_DipRefused ==
    /\ Called("apply")
    /\ Ilk(probe.msg.event) = "dip"
    /\ probe.msg.event.prefix = Id1
    /\ probe.msg.event.sn = 0
    /\ probe.state = DefaultState
    /\ probe.result = Err("SemanticError")

\* a Dip is taken as the successor of the inception of its prefix
C26_DipOnInitialized ==
    /\ Called("apply")
    /\ Ilk(probe.msg.event) = "dip"
    /\ probe.state = Incepted
    /\ probe.result.ok

InSequence == probe # NoProbe /\ probe.op = "sequence"

\* an event that is no inception and names another prefix than the state's
\* is rejected
ForeignRejected(state) ==
    \A event \in SequenceEvents(state) :
        Ilk(event) # "icp" /\ event.prefix # state.prefix =>
            EventMessage_apply_to(Message(event), state) = Err("SemanticError")

\* C27 (immutable identifier): in every state reached by successful applies
\* from the empty state, state.prefix is the prefix of the inception event,
\* and a non-inception event with another prefix is rejected, the state
\* staying as it is.
C27_ImmutableIdentifier ==
    InSequence =>
        /\ probe.inception # None => probe.state.prefix = probe.inception.some
        /\ ForeignRejected(probe.state)

C27_Witness ==
    /\ InSequence
    /\ probe.inception = Some(Id2)
    /\ probe.state.sn = MaxSn + 1
    /\ probe.ilk = "rot"

\* C28 (interaction frame): a successfully applied Ixn changes only sn, to
\* state.sn + 1, and last; the current key configuration, the witnesses,
\* the tally, delegated_keys and the delegator stay as they were.
C28_InteractionFrame ==
    Called("apply") /\ Ilk(probe.msg.event) = "ixn" /\ probe.result.ok =>
        /\ probe.result.val.sn = probe.state.sn + 1
        /\ probe.result.val.last = EventMessage_serialize(probe.msg)
        /\ probe.result.val
             = [probe.state EXCEPT !.sn = probe.result.val.sn, !.last = probe.result.val.last]

C28_Witness ==
    /\ Called("apply")
    /\ Ilk(probe.msg.event) = "ixn"
    /\ probe.state = Incepted
    /\ probe.result.ok
    /\ probe.result.val.current = IcpSingle.key_config
    /\ probe.result.val # Incepted

(***************************************************************************)
(* The stored state and the log.                                           *)
(***************************************************************************)
\* the highest sequence number the log of prefix holds
Highest(db, prefix) ==
    CHOOSE n \in {e.sn : e \in db.kel} :
        /\ HasEntry(db, prefix, n)
        /\ \A e \in db.kel : e.prefix = prefix => e.sn <= n

\* the state the database gives for prefix is the fold of its stored bytes
IsFold(db, prefix) == compute_state(db, prefix) = FoldKel(db, prefix, Highest(db, prefix))

\* a call that commits returns the state the database then gives
ReturnsFold(item, r) ==
    r.outcome = "Ok" =>
        /\ r.ret = compute_state(r.db, EventOf(item).prefix)
        /\ IsFold(r.db, EventOf(item).prefix)

\* C29 (state is a fold of the log): for every prefix with a non-empty log,
\* compute_state, and the state returned by the call that committed the
\* latest event, is the fold of apply over the stored bytes 0..max from the
\* empty state.
C29_StateIsFold ==
    /\ \A e \in kel : IsFold(Db, e.prefix)
    /\ \A item \in EventInputs(Db) : ReturnsFold(item, process_event(Db, item))

C29_Witness ==
    \E e \in kel :
        /\ e.sn = 1
        /\ e.raw.msg.event.event_data.ilk = "rot"
        /\ compute_state(Db, e.prefix) = FoldKel(Db, e.prefix, 1)
        /\ \E f \in kel : f.prefix = e.prefix /\ f.sn = 0 /\ f.raw.form = "alt"

(***************************************************************************)
(* Further properties of the next-key commitment.                          *)
(***************************************************************************)
\* keys with the key k listed twice more
TwiceMore(keys, k) == keys \o Keylist(<<k, k>>)

\* C30 (duplicate keys cancel in the next-key commitment): the commitment
\* to a threshold and a key list is the commitment to the list with any key
\* appended twice, so the configuration listing that key twice passes
\* verify_next against the commitment made without it.
C30_DuplicatesCancel ==
    Called("commit") =>
        \A k \in {"K1", "K2", "K3"} :
            /\ nxt_commitment(probe.threshold, TwiceMore(probe.keys, k), probe.derivation)
                 = probe.result
            /\ KeyConfig_verify_next(
                   KeyConfig(1, Keylist(<<"K1">>), probe.result),
                   KeyConfig(probe.threshold, TwiceMore(probe.keys, k), NextCommit))

C30_Witness ==
    /\ Called("commit")
    /\ probe.keys = Keylist(<<"K1", "K2">>)
    /\ probe.threshold = 2
    /\ probe.result # nxt_commitment(2, Keylist(<<"K1">>), probe.derivation)
    /\ probe.result = nxt_commitment(2, Keylist(<<"K1", "K2", "K3", "K3">>), probe.derivation)

====
